---- MODULE Spec2Model ----
(***************************************************************************)
(* Model of app.py, the Streamlit "Tokyo use-zone checker".                *)
(*                                                                         *)
(* One script run (top to bottom of app.py) is one action.  The state is   *)
(* Streamlit's per-session state (widget values, session_state keys), the  *)
(* two process-wide caches (st.cache_resource for load_shapefile,          *)
(* st.cache_data for geocode_address), the shapefile on storage, and the   *)
(* observable output of the last run.                                      *)
(*                                                                         *)
(* Numbers are integers; an optional number (Python None or a number) is   *)
(* the sequence <<>> or <<n>>.                                             *)
(***************************************************************************)
EXTENDS Integers, Sequences, FiniteSets, TLC

\* ------------------------------------------------------------------ bounds
\* Cap of the HTTP-request counter kept per address.
MaxHttpCalls == 2
\* Cap of the counter of executions of load_shapefile's body.
MaxStorageReads == 2
\* Longest list of matched rows handed to the result display (SpecFormat).
MaxRows == 2

\* --------------------------------------------------------- program constants
LatMin == -90
LatMax == 90
LonMin == -180
LonMax == 180

None == <<>>
Num(n) == <<n>>
IsNone(v) == v = <<>>
Val(v) == v[1]

\* Values the user can type into the two number_input fields (no min/max
\* is set on them, so out-of-range values are accepted by the widget).
LatInputs == {None, Num(0), Num(1), Num(95)}
LonInputs == {None, Num(0), Num(1), Num(2), Num(5), Num(181)}
\* Values of the text_input; "" is the empty field.
Addresses == {"", "kudankita", "nowhere"}
\* Values the user types into the text_input.
AddressInputs == {"", "kudankita"}

\* ------------------------------------------------------------ raw attributes
\* A raw attribute value of a row: absent/None, NaN, +inf, a non-numeric
\* string, or a finite number n.
RawNone == [k |-> "none", n |-> 0]
RawNaN == [k |-> "nan", n |-> 0]
RawInf == [k |-> "inf", n |-> 0]
RawStr == [k |-> "str", n |-> 0]
RawNum(n) == [k |-> "num", n |-> n]

\* youto_code_map: the codes that have a name.
youto_code_map == 1..12

\* Line 176: the zone name shown for a raw code.
YoutoName(code) ==
    IF code.k = "none" THEN "unavailable"
    ELSE IF code.k = "num" /\ code.n \in youto_code_map THEN "named"
    ELSE "unknown code"

\* Python's int(val): a finite number converts, NaN and a non-numeric string
\* raise ValueError, an infinity raises OverflowError, None raises TypeError.
PyInt(val) ==
    CASE val.k = "num" -> "ok"
      [] val.k = "nan" -> "ValueError"
      [] val.k = "str" -> "ValueError"
      [] val.k = "inf" -> "OverflowError"
      [] OTHER -> "TypeError"

\* Python's float(val): numbers, NaN and infinities convert, a non-numeric
\* string raises ValueError, None raises TypeError.
PyFloat(val) ==
    CASE val.k \in {"num", "nan", "inf"} -> "ok"
      [] val.k = "str" -> "ValueError"
      [] OTHER -> "TypeError"

\* One of the int-formatted metrics (TUP3F3, TUP3F4, TUP3F6, TAKASA):
\*   try: st.metric(value=f"{int(val)}..." if val is not None else "N/A")
\*   except (ValueError, TypeError): st.metric(value=f"{val} (conversion error)")
\* The result is what is shown, or "raise" when the exception escapes the
\* handler.
FormatIntMetric(val) ==
    IF val.k = "none" THEN "N/A"
    ELSE IF PyInt(val) = "ok" THEN "value"
    ELSE IF PyInt(val) \in {"ValueError", "TypeError"} THEN "diagnostic"
    ELSE "raise"

\* The float-formatted metric (TUP3F5), same handler.
FormatFloatMetric(val) ==
    IF val.k = "none" THEN "N/A"
    ELSE IF PyFloat(val) = "ok" THEN "value"
    ELSE IF PyFloat(val) \in {"ValueError", "TypeError"} THEN "diagnostic"
    ELSE "raise"

\* The flag metric (TUP3F7): comparisons only, inside a bare except.
FormatFlagMetric(val) ==
    IF val.k = "num" /\ val.n \in {0, 1} THEN "value" ELSE "N/A"

\* The six metrics of one result card, in the order the code renders them
\* (left column TUP3F3, TUP3F5, TUP3F7; right column TUP3F4, TUP3F6, TAKASA).
MetricOutcomes(row) ==
    << FormatIntMetric(row.TUP3F3), FormatFloatMetric(row.TUP3F5),
       FormatFlagMetric(row.TUP3F7), FormatIntMetric(row.TUP3F4),
       FormatIntMetric(row.TUP3F6), FormatIntMetric(row.TAKASA) >>

\* The metrics of one card that are rendered: all of them up to the first
\* whose formatting raises out of its handler.
RECURSIVE ShownPrefix(_)
ShownPrefix(outs) ==
    IF outs = <<>> \/ Head(outs) = "raise" THEN <<>>
    ELSE <<Head(outs)>> \o ShownPrefix(Tail(outs))

\* Lines 172-206: the loop over the matched rows.  cards is the sequence of
\* rendered cards (each [name, metrics]); raised says an exception left the
\* loop, in which case nothing after the failing metric is rendered.
RECURSIVE RenderCards(_)
RenderCards(rows) ==
    IF rows = <<>> THEN [cards |-> <<>>, raised |-> FALSE]
    ELSE LET outs == MetricOutcomes(Head(rows))
             shown == ShownPrefix(outs)
             card == [name |-> YoutoName(Head(rows).TUP3F1), metrics |-> shown]
         IN IF Len(shown) < Len(outs)
            THEN [cards |-> <<card>>, raised |-> TRUE]
            ELSE LET rest == RenderCards(Tail(rows))
                 IN [cards |-> <<card>> \o rest.cards, raised |-> rest.raised]

\* ------------------------------------------------------------------ geometry
\* A zone polygon is an axis-parallel rectangle in the dataset's projected
\* coordinate system; a point is [x, y].  A rectangle with xmin < xmax and
\* ymin < ymax has a non-empty interior.
Rect(x1, x2, y1, y2) == [xmin |-> x1, xmax |-> x2, ymin |-> y1, ymax |-> y2]

\* polygon.contains(point): the point lies in the polygon's interior
\* (shapely: a point on the boundary is not contained).
PolygonContainsPoint(g, p) ==
    g.xmin < p.x /\ p.x < g.xmax /\ g.ymin < p.y /\ p.y < g.ymax

\* polygon.intersects(point): interior or boundary.
PolygonIntersectsPoint(g, p) ==
    g.xmin <= p.x /\ p.x <= g.xmax /\ g.ymin <= p.y /\ p.y <= g.ymax

\* point.contains(polygon): every point of the polygon is the point itself,
\* which no polygon with an interior satisfies.
PointContainsPolygon(p, g) ==
    g.xmin = p.x /\ g.xmax = p.x /\ g.ymin = p.y /\ g.ymax = p.y

\* The envelope of the polygon meets the envelope of the point.
EnvelopesIntersect(p, g) == PolygonIntersectsPoint(g, p)

\* gdf.sindex.query(geometry, predicate): the positions of the rows whose
\* envelope meets the envelope of the input geometry and for which
\* predicate(input geometry, row geometry) holds.  The predicate is applied
\* with the input geometry on the left: "contains" asks whether the input
\* contains the row's geometry, "within" whether the input lies within it.
SindexQuery(rows, p, predicate) ==
    { i \in 1..Len(rows) :
        /\ EnvelopesIntersect(p, rows[i].geometry)
        /\ CASE predicate = "contains" -> PointContainsPolygon(p, rows[i].geometry)
             [] predicate = "within" -> PolygonContainsPoint(rows[i].geometry, p)
             [] predicate = "intersects" -> PolygonIntersectsPoint(rows[i].geometry, p)
             [] OTHER -> TRUE }

\* The contains -> intersects two-tier selection (the strict matches, or when
\* there are none the rows that merely intersect the point).
containing_polygon_fallback(rows, p) ==
    LET strict == { i \in 1..Len(rows) : PolygonContainsPoint(rows[i].geometry, p) }
        touching == { i \in 1..Len(rows) : PolygonIntersectsPoint(rows[i].geometry, p) }
    IN IF strict # {} THEN strict ELSE touching

\* Lines 161-164: the candidates of the index query with predicate
\* 'contains', narrowed to the rows whose geometry contains the point.
containing_polygon(rows, p) ==
    LET possible_matches_index == SindexQuery(rows, p, "contains")
    IN { i \in possible_matches_index : PolygonContainsPoint(rows[i].geometry, p) }

\* Lines 143-155: the query point (longitude, latitude) reprojected into the
\* dataset's plane coordinate system (a false origin and axis order x = east,
\* y = north).
Project(latitude, longitude) == [x |-> longitude + 10, y |-> latitude + 10]

\* ------------------------------------------------------------------- dataset
Row(g, code, far, bcr, setback, lot, flag, height) ==
    [geometry |-> g, TUP3F1 |-> code, TUP3F3 |-> far, TUP3F4 |-> bcr,
     TUP3F5 |-> setback, TUP3F6 |-> lot, TUP3F7 |-> flag, TAKASA |-> height]

\* Two zones sharing the edge x = 12.
DatasetAdjacent ==
    [crs |-> "EPSG:6677",
     rows |-> << Row(Rect(10, 12, 10, 12), RawNum(1), RawNum(100), RawNum(50),
                     RawNum(1), RawNone, RawNum(0), RawNum(10)),
                 Row(Rect(12, 14, 10, 12), RawNum(9), RawNum(600), RawNum(80),
                     RawNone, RawNone, RawNum(1), RawNone) >>]

\* A later edition of the file: one zone re-coded, a third zone overlapping
\* the first two.
DatasetRevised ==
    [crs |-> "EPSG:6677",
     rows |-> << Row(Rect(10, 12, 10, 12), RawNum(99), RawInf, RawNaN,
                     RawStr, RawNone, RawNum(0), RawNum(10)),
                 Row(Rect(12, 14, 10, 12), RawNum(9), RawNum(600), RawNum(80),
                     RawNone, RawNone, RawNum(1), RawNone),
                 Row(Rect(11, 13, 10, 12), RawNum(5), RawNum(200), RawNum(60),
                     RawNone, RawNone, RawNone, RawNone) >>]

\* The same zones without projection metadata (no .prj): gdf.crs is None.
DatasetNoCrs == [crs |-> "none", rows |-> DatasetAdjacent.rows]

\* What can be at shapefile_path: nothing, or one of the datasets.
Missing == [crs |-> "missing", rows |-> <<>>]
Shapefiles == {Missing, DatasetAdjacent, DatasetRevised, DatasetNoCrs}

\* --------------------------------------------------------------------- state
VARIABLES
    search_method,   \* st.radio "search_method": "address" or "latlon"
    address_input,   \* st.text_input "address_input"
    manual_lat,      \* st.session_state.manual_lat (None or a number)
    manual_lon,      \* st.session_state.manual_lon
    search_clicked,  \* st.session_state.search_clicked
    geocode_cache,   \* st.cache_data of geocode_address: address -> <<>> or <<triple>>
    resource_cache,  \* st.cache_resource of load_shapefile: <<>> or <<result>>
    shapefile,       \* what is stored at shapefile_path
    http_calls,      \* requests.get calls issued so far, per address
    first_ret,       \* per address, what the first geocode_address call returned
    geo_ret,         \* the last geocode_address call: its argument and result
    storage_reads,   \* executions of load_shapefile's body so far
    first_loaded,    \* what the first execution of load_shapefile's body returned
    last_submit_ok,  \* whether the most recent submit of the session succeeded
    out              \* what the last script run did and showed

vars == << search_method, address_input, manual_lat, manual_lon, search_clicked,
           geocode_cache, resource_cache, shapefile, http_calls, first_ret,
           geo_ret, storage_reads, first_loaded, last_submit_ok, out >>

session_vars == << search_method, address_input, manual_lat, manual_lon,
                   search_clicked, last_submit_ok >>
geocoder_vars == << geocode_cache, http_calls, first_ret, geo_ret >>
loader_vars == << resource_cache, shapefile, storage_reads, first_loaded >>

\* ------------------------------------------------------------ Zone loader
\* Lines 53-91, the body of load_shapefile: None when the file is missing,
\* otherwise the GeoDataFrame read from it.
LoadShapefileBody(file) == IF file = Missing THEN None ELSE <<file>>

\* load_shapefile without memoization: the body runs on every call.
load_shapefile_uncached(cache, file) ==
    [result |-> LoadShapefileBody(file), cache |-> <<LoadShapefileBody(file)>>,
     read |-> TRUE]

\* Line 52, @st.cache_resource on load_shapefile(path), for the one path the
\* script passes: a cached result is returned without running the body.
load_shapefile(cache, file) ==
    IF cache # <<>>
    THEN [result |-> cache[1], cache |-> cache, read |-> FALSE]
    ELSE [result |-> LoadShapefileBody(file), cache |-> <<LoadShapefileBody(file)>>,
          read |-> TRUE]

\* ---------------------------------------------------------- Geocoder client
\* Outcomes of requests.get + raise_for_status + response.json():
\*   timeout        requests.exceptions.Timeout
\*   request_error  any other RequestException (connection, HTTP status)
\*   bad_body       a body the parsing code trips over (another exception)
\*   empty          an empty result list
\*   no_coords      a first hit without a two-element coordinates array
\*   hit            a first hit with coordinates [lon, lat] (numbers)
Fail(kind) == [kind |-> kind, lat |-> 0, lon |-> 0]
Hit(lat, lon) == [kind |-> "hit", lat |-> lat, lon |-> lon]
Responses ==
    { Fail("timeout"), Fail("request_error"), Fail("bad_body"), Fail("empty"),
      Fail("no_coords"), Hit(1, 1), Hit(1, 2), Hit(0, 5) }

Triple(lat, lon, msg) == [lat |-> lat, lon |-> lon, msg |-> msg]

\* geocode_address with the Timeout handler after the RequestException
\* handler (Timeout is a RequestException, so it never runs).
GeocodeBodyTimeoutShadowed(address, resp) ==
    IF address = "" THEN Triple(None, None, "no address entered")
    ELSE CASE resp.kind = "hit" ->
                Triple(Num(resp.lat), Num(resp.lon), "geocoding succeeded")
           [] resp.kind = "no_coords" ->
                Triple(None, None, "error: no coordinate data from the API")
           [] resp.kind = "empty" ->
                Triple(None, None, "error: address not found")
           [] resp.kind = "timeout" ->
                Triple(None, None, "error: connection to the API failed")
           [] resp.kind = "request_error" ->
                Triple(None, None, "error: connection to the API failed")
           [] OTHER ->
                Triple(None, None, "unexpected error (geocoding)")

\* Lines 95-129, the body of geocode_address.
GeocodeBody(address, resp) ==
    IF address = "" THEN Triple(None, None, "no address entered")
    ELSE CASE resp.kind = "hit" ->
                Triple(Num(resp.lat), Num(resp.lon), "geocoding succeeded")
           [] resp.kind = "no_coords" ->
                Triple(None, None, "error: no coordinate data from the API")
           [] resp.kind = "empty" ->
                Triple(None, None, "error: address not found")
           [] resp.kind = "timeout" ->
                Triple(None, None, "error: connection to the API timed out")
           [] resp.kind = "request_error" ->
                Triple(None, None, "error: connection to the API failed")
           [] OTHER ->
                Triple(None, None, "unexpected error (geocoding)")

\* Whether the body issues requests.get for this address (line 97 returns
\* before it for an empty address).
IssuesHttp(address) == address # ""

\* A cache that keeps only the successful results.
geocode_address_success_only(cache, address, resp) ==
    IF cache[address] # <<>>
    THEN [ret |-> cache[address][1], cache |-> cache, http |-> FALSE]
    ELSE LET r == GeocodeBody(address, resp)
         IN [ret |-> r,
             cache |-> IF IsNone(r.lat) THEN cache
                       ELSE [cache EXCEPT ![address] = <<r>>],
             http |-> IssuesHttp(address)]

\* Line 94, @st.cache_data on geocode_address(address): the first call for an
\* address runs the body and stores what it returns (whatever it returns);
\* later calls return the stored value.
geocode_address(cache, address, resp) ==
    IF cache[address] # <<>>
    THEN [ret |-> cache[address][1], cache |-> cache, http |-> FALSE]
    ELSE LET r == GeocodeBody(address, resp)
         IN [ret |-> r, cache |-> [cache EXCEPT ![address] = <<r>>],
             http |-> IssuesHttp(address)]

\* The bookkeeping of one geocode_address call (the caches and the history
\* variables the claims about the geocoder read).
GeocodeStep(address, g, resp) ==
    /\ geocode_cache' = g.cache
    /\ http_calls' = IF g.http
                     THEN [http_calls EXCEPT ![address] = @ + 1]
                     ELSE http_calls
    /\ first_ret' = IF first_ret[address] = <<>>
                    THEN [first_ret EXCEPT ![address] = <<g.ret>>]
                    ELSE first_ret
    /\ geo_ret' = [called |-> TRUE, address |-> address, ret |-> g.ret,
                   http |-> g.http,
                   outcome |-> IF g.http THEN resp.kind ELSE "none"]

NoGeocodeCall == [called |-> FALSE, address |-> "", ret |-> Triple(None, None, ""),
                  http |-> FALSE, outcome |-> "none"]

\* ------------------------------------------------------------- Point locator
\* The rows at the given positions, in row order (gdf.iloc / boolean mask).
RowsAt(rows, idxs) ==
    LET F[i \in 0..Len(rows)] ==
            IF i = 0 THEN <<>>
            ELSE IF i \in idxs THEN Append(F[i - 1], rows[i]) ELSE F[i - 1]
    IN F[Len(rows)]

\* Line 136: the locator's own guard on its arguments.
ValidLatLon(latitude, longitude) ==
    /\ ~IsNone(latitude) /\ ~IsNone(longitude)
    /\ LatMin <= Val(latitude) /\ Val(latitude) <= LatMax
    /\ LonMin <= Val(longitude) /\ Val(longitude) <= LonMax

\* What the locator did and showed: the messages, whether the spatial query
\* ran, the positions and the rows of containing_polygon, the cards and the
\* map rendered.
Shown(messages, query, matched, rows, cards, map) ==
    [messages |-> messages, spatial_query |-> query, matched |-> matched,
     rows |-> rows, cards |-> cards, map |-> map]

\* The no-match branch with the st.map call outside any handler: a failure
\* of the map leaves through the function's outer handler.
RenderNoMatchUnguarded(map_fails) ==
    IF map_fails
    THEN [messages |-> {"warning: no zone data found for the coordinates",
                        "error: unexpected error (search/display)"},
          map |-> "none"]
    ELSE [messages |-> {"warning: no zone data found for the coordinates"},
          map |-> "point_only"]

\* Lines 280-288: no row matched.  The empty-state warning, then the map of
\* the query point alone; a failure of st.map is reported as a warning.
RenderNoMatch(map_fails) ==
    IF map_fails
    THEN [messages |-> {"warning: no zone data found for the coordinates",
                        "warning: error while showing the simple map"},
          map |-> "none"]
    ELSE [messages |-> {"warning: no zone data found for the coordinates"},
          map |-> "point_only"]

\* Lines 168-278 and 290-292: rows matched.  The success line, one card per
\* row, then the pydeck map with st.map as its fallback.  An exception that
\* leaves a card or the fallback map is caught by the function's outer
\* handler, which reports it; nothing after the failing statement is shown.
RenderMatches(rows, pydeck_fails, map_fails) ==
    LET r == RenderCards(rows)
        success == {"success: the point lies in the following use zones"}
    IN IF r.raised
       THEN [messages |-> success \cup {"error: unexpected error (search/display)"},
             cards |-> r.cards, map |-> "none"]
       ELSE IF ~pydeck_fails
       THEN [messages |-> success \cup {"success: map shown (pydeck)"},
             cards |-> r.cards, map |-> "pydeck"]
       ELSE IF ~map_fails
       THEN [messages |-> success \cup {"warning: error while showing the pydeck map",
                                        "info: showing the simple map"},
             cards |-> r.cards, map |-> "simple"]
       ELSE [messages |-> success \cup {"warning: error while showing the pydeck map",
                                        "info: showing the simple map",
                                        "error: unexpected error (search/display)"},
             cards |-> r.cards, map |-> "none"]

\* Lines 131-292, find_and_display_zone(latitude, longitude, gdf); gdf is
\* None (<<>>) or <<dataset>>.
find_and_display_zone(latitude, longitude, gdf, pydeck_fails, map_fails) ==
    IF IsNone(gdf)
    THEN Shown({"error: shapefile not loaded, cannot search"}, FALSE, {}, <<>>, <<>>, "none")
    ELSE IF ~ValidLatLon(latitude, longitude)
    THEN Shown({"warning: no valid latitude/longitude given"}, FALSE, {}, <<>>, <<>>, "none")
    ELSE IF gdf[1].crs = "none"
    THEN Shown({"info: search coordinates", "error: CRS of the shapefile unknown"},
               FALSE, {}, <<>>, <<>>, "none")
    ELSE LET rows == gdf[1].rows
             point_proj == Project(Val(latitude), Val(longitude))
             matched == containing_polygon(rows, point_proj)
             head == {"info: search coordinates", "converted to the CRS of the shapefile"}
         IN IF matched # {}
            THEN LET m == RenderMatches(RowsAt(rows, matched), pydeck_fails, map_fails)
                 IN Shown(head \cup m.messages, TRUE, matched,
                          RowsAt(rows, matched), m.cards, m.map)
            ELSE LET n == RenderNoMatch(map_fails)
                 IN Shown(head \cup n.messages, TRUE, matched, <<>>, <<>>, n.map)

\* -------------------------------------------------------- Presentation layer
\* What the input section of one run leaves for the dispatch: the run's
\* latitude and longitude, search_button_pressed, the new session values and
\* the messages shown so far.  submit is "none", "address" or "latlon".
Input(submit, latitude, longitude, pressed, clicked, mlat, mlon, messages) ==
    [submit |-> submit, latitude |-> latitude, longitude |-> longitude,
     pressed |-> pressed, clicked |-> clicked, manual_lat |-> mlat,
     manual_lon |-> mlon, messages |-> messages]

\* Lines 344-368, the address mode; g is the geocode_address call of line 361
\* (used only when the button is pressed with a non-empty address).
AddressPart(address, geocode_btn, g) ==
    IF ~geocode_btn
    THEN Input("none", None, None, FALSE, search_clicked, manual_lat, manual_lon, {})
    ELSE IF address # ""
    THEN IF IsNone(g.ret.lat) \/ IsNone(g.ret.lon)
         THEN Input("address", g.ret.lat, g.ret.lon, TRUE, FALSE, None, None,
                    {g.ret.msg, "error: no coordinates, cannot search"})
         ELSE Input("address", g.ret.lat, g.ret.lon, TRUE, TRUE, None, None,
                    {g.ret.msg})
    ELSE Input("address", None, None, FALSE, FALSE, manual_lat, manual_lon,
               {"warning: enter an address"})

\* The coordinate mode with a failed submit leaving search_clicked as it was.
LatLonPartKeepsFlag(lat_w, lon_w, latlon_btn) ==
    IF ~latlon_btn
    THEN Input("none", lat_w, lon_w, FALSE, search_clicked, lat_w, lon_w, {})
    ELSE IF ValidLatLon(lat_w, lon_w)
    THEN Input("latlon", lat_w, lon_w, TRUE, TRUE, lat_w, lon_w, {})
    ELSE Input("latlon", lat_w, lon_w, FALSE, search_clicked, lat_w, lon_w,
               {"warning: enter a valid latitude and longitude"})

\* Lines 369-404, the coordinate mode; lat_w and lon_w are what the two
\* number_input widgets return.
LatLonPart(lat_w, lon_w, latlon_btn) ==
    IF ~latlon_btn
    THEN Input("none", lat_w, lon_w, FALSE, search_clicked, lat_w, lon_w, {})
    ELSE IF ValidLatLon(lat_w, lon_w)
    THEN Input("latlon", lat_w, lon_w, TRUE, TRUE, lat_w, lon_w, {})
    ELSE Input("latlon", lat_w, lon_w, FALSE, FALSE, lat_w, lon_w,
               {"warning: enter a valid latitude and longitude"})

NotLocated == Shown({}, FALSE, {}, <<>>, <<>>, "none")

\* Line 411: the dispatch's test on the run's coordinates.
DispatchAccepts(latitude, longitude) ==
    /\ ~IsNone(latitude) /\ ~IsNone(longitude)
    /\ Val(latitude) # 0 /\ Val(longitude) # 0

\* Lines 409-423, the dispatch on st.session_state.search_clicked.
Dispatch(inp, gdf, pydeck_fails, map_fails) ==
    IF ~inp.clicked THEN [called |-> FALSE, shown |-> NotLocated]
    ELSE IF DispatchAccepts(inp.latitude, inp.longitude)
    THEN [called |-> TRUE,
          shown |-> find_and_display_zone(inp.latitude, inp.longitude, gdf,
                                          pydeck_fails, map_fails)]
    ELSE IF inp.pressed THEN [called |-> FALSE, shown |-> NotLocated]
    ELSE [called |-> FALSE,
          shown |-> Shown({"warning: no valid coordinates to search with"},
                          FALSE, {}, <<>>, <<>>, "none")]

\* What a run leaves to be observed.
Output(page, inp, gdf, d) ==
    [page |-> page, submit |-> inp.submit, latitude |-> inp.latitude,
     longitude |-> inp.longitude, clicked |-> inp.clicked, gdf |-> gdf,
     locator_called |-> d.called,
     messages |-> inp.messages \cup d.shown.messages,
     spatial_query |-> d.shown.spatial_query, matched |-> d.shown.matched,
     rows |-> d.shown.rows, cards |-> d.shown.cards, map |-> d.shown.map]

NoInput == Input("none", None, None, FALSE, FALSE, None, None, {})
NoDispatch == [called |-> FALSE, shown |-> NotLocated]

\* Lines 301-309: the dataset of this run, and the bookkeeping of the load.
LoadStep(ld) ==
    /\ ld.read => storage_reads < MaxStorageReads
    /\ resource_cache' = ld.cache
    /\ storage_reads' = IF ld.read THEN storage_reads + 1 ELSE storage_reads
    /\ first_loaded' = IF ld.read /\ first_loaded = <<>>
                       THEN <<ld.result>> ELSE first_loaded
    /\ UNCHANGED shapefile

\* Lines 304-309: the load failed; the run reports it and stops (st.stop)
\* before any widget is rendered.
Stopped ==
    /\ out' = [Output("stopped", NoInput, None, NoDispatch) EXCEPT
                 !.messages = {"error: shapefile load failed, cannot start"},
                 !.clicked = search_clicked]
    /\ UNCHANGED session_vars
    /\ UNCHANGED geocoder_vars

\* The session after the input section and the dispatch of a run.
FormStep(method, address, inp, gdf, pydeck_fails, map_fails) ==
    /\ search_method' = method
    /\ address_input' = IF method = "address" THEN address ELSE ""
    /\ manual_lat' = inp.manual_lat
    /\ manual_lon' = inp.manual_lon
    /\ search_clicked' = inp.clicked
    /\ last_submit_ok' = IF inp.submit = "none" THEN last_submit_ok
                         ELSE IF inp.submit = "latlon"
                         THEN ValidLatLon(inp.latitude, inp.longitude)
                         ELSE address # "" /\ ~IsNone(inp.latitude)
                                           /\ ~IsNone(inp.longitude)
    /\ out' = Output("form", inp, gdf,
                     Dispatch(inp, gdf, pydeck_fails, map_fails))

\* One run of the script in address mode (lines 296-435).
AddressRun(address, geocode_btn, resp, pydeck_fails, map_fails) ==
    LET ld == load_shapefile(resource_cache, shapefile)
        g == geocode_address(geocode_cache, address, resp)
    IN /\ LoadStep(ld)
       /\ IF IsNone(ld.result) THEN Stopped
          ELSE /\ IF geocode_btn /\ address # ""
                  THEN /\ g.http => http_calls[address] < MaxHttpCalls
                       /\ GeocodeStep(address, g, resp)
                  ELSE /\ geo_ret' = NoGeocodeCall
                       /\ UNCHANGED << geocode_cache, http_calls, first_ret >>
               /\ FormStep("address", address, AddressPart(address, geocode_btn, g),
                           ld.result, pydeck_fails, map_fails)

\* One run of the script in coordinate mode.
LatLonRun(lat_w, lon_w, latlon_btn, pydeck_fails, map_fails) ==
    LET ld == load_shapefile(resource_cache, shapefile)
    IN /\ LoadStep(ld)
       /\ IF IsNone(ld.result) THEN Stopped
          ELSE /\ geo_ret' = NoGeocodeCall
               /\ UNCHANGED << geocode_cache, http_calls, first_ret >>
               /\ FormStep("latlon", "", LatLonPart(lat_w, lon_w, latlon_btn),
                           ld.result, pydeck_fails, map_fails)

\* ------------------------------------------------------------------- actions
EmptyCache == [a \in Addresses |-> <<>>]

Init ==
    /\ search_method = "address"
    /\ address_input = ""
    /\ manual_lat = None
    /\ manual_lon = None
    /\ search_clicked = FALSE
    /\ geocode_cache = EmptyCache
    /\ resource_cache = <<>>
    /\ shapefile \in Shapefiles
    /\ http_calls = [a \in Addresses |-> 0]
    /\ first_ret = EmptyCache
    /\ geo_ret = NoGeocodeCall
    /\ storage_reads = 0
    /\ first_loaded = <<>>
    /\ last_submit_ok = FALSE
    /\ out = [Output("none", NoInput, None, NoDispatch) EXCEPT !.clicked = FALSE]

\* The page is (re)loaded or rerun with the widgets as they are.
Rerun ==
    \E pydeck_fails \in BOOLEAN, map_fails \in BOOLEAN :
        IF search_method = "address"
        THEN AddressRun(address_input, FALSE, Fail("empty"), pydeck_fails, map_fails)
        ELSE LatLonRun(manual_lat, manual_lon, FALSE, pydeck_fails, map_fails)

\* The user picks the other search method.  A widget that was not rendered
\* in the last run starts from its default: the text field empty, the number
\* fields from st.session_state.manual_lat / manual_lon (lines 376, 386).
SwitchMode ==
    /\ out.page = "form"
    /\ \E pydeck_fails \in BOOLEAN, map_fails \in BOOLEAN :
        IF search_method = "address"
        THEN LatLonRun(manual_lat, manual_lon, FALSE, pydeck_fails, map_fails)
        ELSE AddressRun("", FALSE, Fail("empty"), pydeck_fails, map_fails)

\* The user changes the address field.
EditAddress ==
    /\ out.page = "form" /\ search_method = "address"
    /\ \E a \in AddressInputs \ {address_input},
          pydeck_fails \in BOOLEAN, map_fails \in BOOLEAN :
        AddressRun(a, FALSE, Fail("empty"), pydeck_fails, map_fails)

\* The user presses the address search button.
SubmitAddress ==
    /\ out.page = "form" /\ search_method = "address"
    /\ \E resp \in Responses, pydeck_fails \in BOOLEAN, map_fails \in BOOLEAN :
        AddressRun(address_input, TRUE, resp, pydeck_fails, map_fails)

\* The user changes the latitude field (the widget's value is the session's
\* manual_lat, stored by line 381 in every coordinate-mode run).
EditLat ==
    /\ out.page = "form" /\ search_method = "latlon"
    /\ \E v \in LatInputs \ {manual_lat},
          pydeck_fails \in BOOLEAN, map_fails \in BOOLEAN :
        LatLonRun(v, manual_lon, FALSE, pydeck_fails, map_fails)

\* The user changes the longitude field.
EditLon ==
    /\ out.page = "form" /\ search_method = "latlon"
    /\ \E v \in LonInputs \ {manual_lon},
          pydeck_fails \in BOOLEAN, map_fails \in BOOLEAN :
        LatLonRun(manual_lat, v, FALSE, pydeck_fails, map_fails)

\* The user presses the coordinate search button.
SubmitLatLon ==
    /\ out.page = "form" /\ search_method = "latlon"
    /\ \E pydeck_fails \in BOOLEAN, map_fails \in BOOLEAN :
        LatLonRun(manual_lat, manual_lon, TRUE, pydeck_fails, map_fails)

\* Between two runs the file at shapefile_path is replaced, removed or
\* restored (the environment, not the program).
FileChange ==
    /\ \E f \in Shapefiles \ {shapefile} : shapefile' = f
    /\ UNCHANGED << search_method, address_input, manual_lat, manual_lon,
                    search_clicked, geocode_cache, resource_cache, http_calls,
                    first_ret, geo_ret, storage_reads, first_loaded,
                    last_submit_ok, out >>

Next ==
    \/ Rerun
    \/ SwitchMode
    \/ EditAddress
    \/ SubmitAddress
    \/ EditLat
    \/ EditLon
    \/ SubmitLatLon
    \/ FileChange

Spec == Init /\ [][Next]_vars

\* ------------------------------------------- the geocoder called on its own
\* geocode_address called directly, with any address (the empty one too) and
\* any outcome of the HTTP call.
CallGeocode ==
    /\ \E address \in Addresses, resp \in Responses :
        LET g == geocode_address(geocode_cache, address, resp)
        IN /\ g.http => http_calls[address] < MaxHttpCalls
           /\ GeocodeStep(address, g, resp)
    /\ UNCHANGED session_vars
    /\ UNCHANGED loader_vars
    /\ UNCHANGED out

NextGeocode == CallGeocode

SpecGeocode == Init /\ [][NextGeocode]_vars

\* ------------------------------------- the result display called on its own
RawValues == {RawNone, RawNaN, RawInf, RawStr, RawNum(1)}

\* Matched rows whose six formatted attributes are numeric but for at most
\* one, which takes any raw value; the zone code is named, unknown or absent.
FormatRows ==
    { Row(Rect(10, 12, 10, 12), code,
          IF pos = 1 THEN v ELSE RawNum(1), IF pos = 2 THEN v ELSE RawNum(1),
          IF pos = 3 THEN v ELSE RawNum(1), IF pos = 4 THEN v ELSE RawNum(1),
          IF pos = 5 THEN v ELSE RawNum(1), IF pos = 6 THEN v ELSE RawNum(1)) :
        code \in {RawNum(1), RawNum(99), RawNone}, pos \in 1..6, v \in RawValues }

RowLists == UNION { [1..n -> FormatRows] : n \in 1..MaxRows }

\* Lines 168-278 applied to a non-empty containing_polygon.
DisplayMatches ==
    /\ out.page = "none"
    /\ \E rows \in RowLists, pydeck_fails \in BOOLEAN, map_fails \in BOOLEAN :
        LET m == RenderMatches(rows, pydeck_fails, map_fails)
        IN out' = [out EXCEPT !.page = "form", !.locator_called = TRUE,
                              !.spatial_query = TRUE,
                              !.matched = 1..Len(rows), !.rows = rows,
                              !.messages = m.messages, !.cards = m.cards,
                              !.map = m.map]
    /\ UNCHANGED session_vars
    /\ UNCHANGED geocoder_vars
    /\ UNCHANGED loader_vars

NextFormat == DisplayMatches

SpecFormat == Init /\ [][NextFormat]_vars

\* -------------------------------------------------------------------- claims
\* The query point of the last run in the dataset's coordinates, the rows
\* of the dataset the run used, and the rows that strictly contain / that
\* touch (contain or border) the point.
OutPoint == Project(Val(out.latitude), Val(out.longitude))
OutRows == out.gdf[1].rows
StrictSet == { i \in 1..Len(OutRows) : PolygonContainsPoint(OutRows[i].geometry, OutPoint) }
TouchSet == { i \in 1..Len(OutRows) : PolygonIntersectsPoint(OutRows[i].geometry, OutPoint) }

\* The last run invoked the locator with a valid point on a dataset that has
\* a coordinate reference system.
Located ==
    /\ out.page = "form" /\ out.locator_called
    /\ ValidLatLon(out.latitude, out.longitude)
    /\ ~IsNone(out.gdf) /\ out.gdf[1].crs # "none"

EmptyStateShown == "warning: no zone data found for the coordinates" \in out.messages
StrictShown == "success: the point lies in the following use zones" \in out.messages

OnSharedBoundary == Located /\ StrictSet = {} /\ Cardinality(TouchSet) = 2

C2_InsideOneReturnsIt ==
    Located /\ Cardinality(StrictSet) = 1 =>
        out.matched = StrictSet /\ StrictShown

\* The validation and error messages of the input section, the dispatch and
\* the locator's argument guard.
ValidationMessages ==
    { "warning: enter an address", "error: no coordinates, cannot search",
      "warning: enter a valid latitude and longitude",
      "warning: no valid coordinates to search with",
      "warning: no valid latitude/longitude given" }
ValidationShown == out.messages \cap ValidationMessages # {}

OutOfRange ==
    \/ ~IsNone(out.latitude)
         /\ (Val(out.latitude) < LatMin \/ Val(out.latitude) > LatMax)
    \/ ~IsNone(out.longitude)
         /\ (Val(out.longitude) < LonMin \/ Val(out.longitude) > LonMax)

\* C3: a run whose current latitude or longitude is out of range does not
\* invoke the locator and performs no spatial query, and, when a search is
\* requested in it (a submit, or search_clicked set from an earlier search),
\* shows a validation message.
C3_OutOfRangeNeverReachesLocator ==
    out.page = "form" /\ OutOfRange =>
        /\ ~out.locator_called /\ ~out.spatial_query
        /\ (out.submit # "none" \/ out.clicked => ValidationShown)

\* C4: every submit (address or coordinates) produces in the same run a
\* result panel (the locator's output) or a message.
C4_SubmitShowsResultOrMessage ==
    out.submit # "none" => out.locator_called \/ out.messages # {}

\* C5: each non-empty address triggers at most one HTTP request, and every
\* call returns the triple the first call with that address returned.
C5_OneRequestPerAddress ==
    /\ \A a \in Addresses \ {""} : http_calls[a] <= 1
    /\ geo_ret.called =>
          /\ first_ret[geo_ret.address] # <<>>
          /\ geo_ret.ret = first_ret[geo_ret.address][1]

\* A repeated call with an address whose first call failed, served from the
\* cache.
C5_Witness ==
    /\ geo_ret.called /\ geo_ret.address # "" /\ ~geo_ret.http
    /\ http_calls[geo_ret.address] = 1 /\ IsNone(geo_ret.ret.lat)

\* C6: load_shapefile's body runs at most once; the cached dataset and the
\* dataset every run hands to the locator are the result of that first load.
C6_LoadedOnceNeverChanged ==
    /\ storage_reads <= 1
    /\ resource_cache # <<>> =>
          first_loaded # <<>> /\ resource_cache[1] = first_loaded[1]
    /\ out.page = "form" =>
          first_loaded # <<>> /\ out.gdf = first_loaded[1]

\* A spatial query on the first-loaded dataset after the file on storage has
\* been replaced.
C6_Witness ==
    /\ out.spatial_query /\ storage_reads = 1
    /\ first_loaded # <<>> /\ first_loaded[1] # <<shapefile>>

\* C7: formatting the attributes of the matched rows never aborts the
\* result: every matched row gets its card, every card all six metrics, and
\* the map is missing only when rendering the map itself failed.
C7_FormattingNeverAborts ==
    out.rows # <<>> =>
        /\ Len(out.cards) = Len(out.rows)
        /\ \A i \in 1..Len(out.cards) : Len(out.cards[i].metrics) = 6
        /\ out.map = "none" =>
              "warning: error while showing the pydeck map" \in out.messages

\* The error kinds the geocoder reports apart.
ErrorGroup(kind) ==
    CASE kind = "timeout" -> "timeout"
      [] kind = "request_error" -> "connection"
      [] kind \in {"empty", "no_coords", "bad_body"} -> "no result"
      [] OTHER -> "success"

C9_OutsideReportsEmpty ==
    Located /\ TouchSet = {} =>
        /\ out.spatial_query /\ out.matched = {} /\ EmptyStateShown
        /\ \/ out.map = "point_only"
           \/ "warning: error while showing the simple map" \in out.messages
        /\ "error: unexpected error (search/display)" \notin out.messages

C9_Witness ==
    /\ Located /\ TouchSet = {}
    /\ "warning: error while showing the simple map" \in out.messages

\* C10: search_clicked at the dispatch is true exactly when the most recent
\* submit of the session succeeded; after a failed submit the locator is not
\* invoked; the locator is only invoked with search_clicked true and both
\* coordinates present and non-zero.
C10_FlagFollowsLastSubmit ==
    /\ search_clicked <=> last_submit_ok
    /\ out.clicked = search_clicked
    /\ out.locator_called =>
          out.clicked /\ DispatchAccepts(out.latitude, out.longitude)
    /\ ~last_submit_ok => ~out.locator_called

\* A failed coordinate submit whose coordinates the dispatch would accept.
C10_Witness ==
    /\ out.submit = "latlon" /\ ~last_submit_ok /\ ~search_clicked
    /\ DispatchAccepts(out.latitude, out.longitude) /\ ~out.locator_called
====
